---- MODULE Spec2Model ----
(***************************************************************************)
(* Transfer pipeline of the WhatsApp download bot:                         *)
(*   - MemStorage progress store          (src/server/storage.ts)          *)
(*   - handleDownload                     (src/server/downloader.ts)       *)
(*   - the .mdl batch command handler     (src/unnamed/part_000)           *)
(*   - splitFile of './file-splitter', which is not among the sources and  *)
(*     is modelled from its specification (spec.md, section 4.3)           *)
(*                                                                         *)
(* One batch command is modelled.  Every URL of the batch is one task: the *)
(* async callback of urls.map (part_000:218-268) together with the         *)
(* handleDownload call it awaits.  A step of the model is one run of the   *)
(* JavaScript event loop for one task: the code between two awaits that    *)
(* wait for I/O.  Promise continuations that follow each other without     *)
(* I/O (a rejection travelling from pipeline() through both catch blocks   *)
(* of handleDownload into the catch block of the batch callback) are one   *)
(* step, as the microtask queue is drained without interleaving.           *)
(***************************************************************************)
EXTENDS Integers, Sequences, FiniteSets, TLC

\* ------------------------------------------------------------------ bounds
MaxBatch == 2       \* longest batch of URLs
BodyLen  == 2       \* chunks (of one unit of size) in a response body
MaxFileLen  == 4    \* longest file handed to splitFile on its own
MaxPartSize == 3    \* largest maxPartBytes handed to splitFile on its own

\* --------------------------------------------------------------- constants
\* The split threshold of part_000:222 and :291, 2 * 1024 * 1024 * 1024
\* bytes.  Sizes are counted in units of 1 GiB: one chunk of a body is one
\* unit, and a size of SplitThreshold + 1 is the first one above the
\* threshold.
SplitThreshold == 2

\* ------------------------------------------------------------------ inputs
Urls      == {"u1", "u2", "u3"}
FileNames == {"f1", "f2", "f3"}
None      == "none"

\* path.basename(url): every URL has its own base name.
Basename(u) == CASE u = "u1" -> "f1" [] u = "u2" -> "f2" [] u = "u3" -> "f3"

\* File names a server sends in Content-Disposition: one that is also the
\* base name of another URL.
DispositionNames == {"f1"}

\* Content-Length header values: 0 stands for an absent header
\* (parseInt(headers['content-length'] || '0')).
ContentLengths == {0, BodyLen}

\* A response: Content-Disposition file name (None when absent) and
\* Content-Length.
Responses == [cd : DispositionNames \cup {None}, cl : ContentLengths]

\* Body sizes around the split threshold, and the responses that carry a
\* body of `size`: with its Content-Length, or without the header.
LargeSizes == {SplitThreshold, SplitThreshold + 1}

LargeResponses(size) == [cd : DispositionNames \cup {None}, cl : {0, size}]

\* Byte values, and the files handed to splitFile on its own.
Bytes == {0, 1}

Sources == UNION {[1..n -> Bytes] : n \in 0..MaxFileLen}

PartSizes == 1..MaxPartSize

VARIABLES
    urls,             \* the batch: the parsed URL list of the command
    pc,               \* per task: where its callback stands
    fileName,         \* per task: handleDownload's fileName (None before the response)
    contentLength,    \* per task: handleDownload's contentLength
    downloadedBytes,  \* per task: handleDownload's local byte counter
    body,             \* per task: chunks of the response body not yet emitted
    dlResult,         \* per task: state of the handleDownload promise
    downloadProgress, \* MemStorage.downloadProgress: url -> record or None
    files,            \* file names present in DOWNLOAD_DIR
    successCount,     \* the batch's successCount
    failedUrls,       \* the batch's failedUrls
    handler,          \* the batch handler: "waiting", "summary" or "thrown"
    parts,            \* per task: parts.length of the splitFile result (0 before)
    j,                \* per task: the loop variable j of the part loop
    delivered,        \* per task: the part numbers of the documents sent
    partFiles,        \* part files present in SPLIT_DIR: <<source name, index>>
    source,           \* splitFile on its own: the bytes of the file
    maxPartBytes,     \* splitFile on its own: the part-size limit
    splitParts,       \* splitFile on its own: the parts returned
    splitState        \* splitFile on its own: "idle" or "done"

vars == <<urls, pc, fileName, contentLength, downloadedBytes, body,
          dlResult, downloadProgress, files, successCount, failedUrls, handler,
          parts, j, delivered, partFiles,
          source, maxPartBytes, splitParts, splitState>>

\* What the part loop of a callback works on, and the splitter on its own.
loopVars == <<parts, j, delivered, partFiles>>

splitVars == <<source, maxPartBytes, splitParts, splitState>>

Tasks == 1..Len(urls)

taskVars == <<fileName, contentLength, downloadedBytes, body>>

\* ------------------------------------------------------- progress store
\* No entry under a key of the Map.
NoProgress == [status |-> "absent"]

\* MemStorage.updateDownloadProgress: Map.set(url, progress).
updateDownloadProgress_FreshMap(dp, url, progress) ==
    [u \in Urls |-> IF u = url THEN progress ELSE NoProgress]

updateDownloadProgress(dp, url, progress) == [dp EXCEPT ![url] = progress]

\* MemStorage.getActiveDownloads: the values of the Map.
getActiveDownloads(dp) == {dp[u] : u \in {k \in Urls : dp[k] # NoProgress}}

\* MemStorage.stopAllDownloads: every entry is rewritten with status 'stopped'.
stopAllDownloads(dp) ==
    [u \in Urls |-> IF dp[u] = NoProgress THEN NoProgress
                    ELSE [dp[u] EXCEPT !.status = "stopped"]]

\* storage.getActiveDownloads().find(d => d.url === url); NoProgress for undefined.
FindProgress(dp, url) ==
    LET found == {d \in getActiveDownloads(dp) : d.url = url}
    IN  IF found = {} THEN NoProgress ELSE CHOOSE d \in found : TRUE

\* ------------------------------------------------------- handleDownload
\* The file name handleDownload resolves: the Content-Disposition name when
\* the header is present, else path.basename(url).
ResolveFileName(url, resp) == IF resp.cd # None THEN resp.cd ELSE Basename(url)

\* The `progress` object of task t (downloader.ts:57-64).  startTime is the
\* instant of the call; the task's number stands for it.
NewProgress(t, name, length) ==
    [fileName        |-> name,
     fileSize        |-> length,
     downloadedBytes |-> 0,
     status          |-> "downloading",
     url             |-> urls[t],
     startTime       |-> t]

\* The `progress` object as the later steps of task t see it.
Progress(t) == NewProgress(t, fileName[t], contentLength[t])

\* The record the 'data' handler stores (downloader.ts:77-81): the progress
\* object with the local byte counter.
ChunkProgress_OneTooMany(t, bytes) ==
    [Progress(t) EXCEPT !.downloadedBytes = bytes + 1]

ChunkProgress(t, bytes) == [Progress(t) EXCEPT !.downloadedBytes = bytes]

\* The record stored when the pipeline has resolved (downloader.ts:95-99).
FinalProgress_LocalCounter(t) ==
    [Progress(t) EXCEPT !.downloadedBytes = downloadedBytes[t],
                        !.status = "completed"]

FinalProgress(t) ==
    [Progress(t) EXCEPT !.downloadedBytes = contentLength[t],
                        !.status = "completed"]

\* The fileSize of the result handleDownload returns (downloader.ts:103-107):
\* contentLength || 0.
ResultFileSize(t) == IF contentLength[t] # 0 THEN contentLength[t] ELSE 0

\* The error the inner catch block of handleDownload rethrows
\* (downloader.ts:86-92).  `unlink` is the callback function of 'fs' and is
\* called without a callback: it throws a TypeError before it removes
\* anything, and that error replaces the pipeline's.
CleanupError(t, cause) == IF fileName[t] \in files THEN "cb" ELSE cause

\* The catch block of the batch callback (part_000:260-266) up to its await.
CatchInCallback(t, cause) ==
    /\ failedUrls' = Append(failedUrls, [url |-> urls[t], error |-> cause])
    /\ pc' = [pc EXCEPT ![t] = "notifyFail"]

\* ------------------------------------------------------- file splitter
\* splitFile (spec.md 4.3): the file is read sequentially and cut into
\* successive parts of exactly maxPart bytes, the final part possibly
\* shorter; the parts are returned in index order.
RECURSIVE splitFile_DropsShortTail(_, _)
splitFile_DropsShortTail(bytes, maxPart) ==
    IF Len(bytes) < maxPart
    THEN <<>>
    ELSE <<SubSeq(bytes, 1, maxPart)>>
           \o splitFile_DropsShortTail(SubSeq(bytes, maxPart + 1, Len(bytes)),
                                       maxPart)

RECURSIVE splitFile(_, _)
splitFile(bytes, maxPart) ==
    IF bytes = <<>>
    THEN <<>>
    ELSE IF Len(bytes) <= maxPart
         THEN <<bytes>>
         ELSE <<SubSeq(bytes, 1, maxPart)>>
                \o splitFile(SubSeq(bytes, maxPart + 1, Len(bytes)), maxPart)

\* parts.length for a file of `size` units cut with the limit maxPart.
PartCount(size, maxPart) == Len(splitFile([i \in 1..size |-> 0], maxPart))

\* The part file of index i that splitFile writes for the file `name`
\* (spec.md 4.3: named from the source name plus a 1-based index).
PartFile(name, i) == <<name, i>>

\* splitFile on its own has been handed the file `bytes` and the limit `m`.
InitSplitFile(bytes, m) ==
    /\ source = bytes
    /\ maxPartBytes = m
    /\ splitParts = <<>>
    /\ splitState = "idle"

\* The state in which the handler has parsed the URL list `batch` and every
\* callback of urls.map waits for its request (part_000:215-220).
InitBatch(batch) ==
    /\ InitSplitFile(<<>>, 1)
    /\ parts = [t \in 1..Len(batch) |-> 0]
    /\ j = [t \in 1..Len(batch) |-> 0]
    /\ delivered = [t \in 1..Len(batch) |-> <<>>]
    /\ partFiles = {}
    /\ urls = batch
    /\ pc = [t \in 1..Len(urls) |-> "request"]
    /\ fileName = [t \in 1..Len(urls) |-> None]
    /\ contentLength = [t \in 1..Len(urls) |-> 0]
    /\ downloadedBytes = [t \in 1..Len(urls) |-> 0]
    /\ body = [t \in 1..Len(urls) |-> 0]
    /\ dlResult = [t \in 1..Len(urls) |-> "pending"]
    /\ downloadProgress = [u \in Urls |-> NoProgress]
    /\ files = {}
    /\ successCount = 0
    /\ failedUrls = <<>>
    /\ handler = "waiting"

\* The batches of the model: one up to MaxBatch URLs, in any order, a URL
\* possibly more than once (the command does not deduplicate).
Batches == UNION {[1..n -> Urls] : n \in 1..MaxBatch}

Init == \E batch \in Batches : InitBatch(batch)

\* axios resolves with a response (downloader.ts:35-82): the file name is
\* resolved, the write stream is created, the progress record registered and
\* the data handler installed.
RespondWith(t, responses, size) ==
    /\ pc[t] = "request"
    /\ \E resp \in responses :
        LET name == ResolveFileName(urls[t], resp) IN
        /\ fileName' = [fileName EXCEPT ![t] = name]
        /\ contentLength' = [contentLength EXCEPT ![t] = resp.cl]
        /\ files' = files \cup {name}
        /\ downloadProgress' =
             updateDownloadProgress(downloadProgress, urls[t],
                                    NewProgress(t, name, resp.cl))
    /\ body' = [body EXCEPT ![t] = size]
    /\ downloadedBytes' = [downloadedBytes EXCEPT ![t] = 0]
    /\ pc' = [pc EXCEPT ![t] = "streaming"]
    /\ UNCHANGED <<urls, loopVars, splitVars, dlResult, successCount,
                   failedUrls, handler>>

\* The response to a request for a file of BodyLen units.
Respond(t) == RespondWith(t, Responses, BodyLen)

\* The response to a request for a file at or just above the split threshold.
RespondLarge(t) ==
    \E size \in LargeSizes : RespondWith(t, LargeResponses(size), size)

\* axios rejects (downloader.ts:35, 108-111): handleDownload rejects before
\* anything is registered, and the callback catches the error.
RequestFails(t) ==
    /\ pc[t] = "request"
    /\ dlResult' = [dlResult EXCEPT ![t] = "rejected"]
    /\ CatchInCallback(t, "unreachable")
    /\ UNCHANGED <<urls, loopVars, splitVars, taskVars, downloadProgress,
                   files, successCount, handler>>

\* The 'data' handler (downloader.ts:67-82) for one chunk of one unit.  When
\* the record is 'stopped' the handler destroys the response stream and
\* throws; the Error goes to the emitter of the event, the pipeline fails
\* later, when the destroyed stream closes (AbortedClose).
Chunk(t) ==
    /\ pc[t] = "streaming"
    /\ body[t] > 0
    /\ body' = [body EXCEPT ![t] = @ - 1]
    /\ downloadedBytes' = [downloadedBytes EXCEPT ![t] = @ + 1]
    /\ IF FindProgress(downloadProgress, urls[t]).status = "stopped"
       THEN \* response.data.destroy(): the pipeline will fail
            /\ pc' = [pc EXCEPT ![t] = "destroyed"]
            /\ UNCHANGED downloadProgress
       ELSE /\ downloadProgress' =
                 updateDownloadProgress(downloadProgress, urls[t],
                                        ChunkProgress(t, downloadedBytes'[t]))
            /\ UNCHANGED pc
    /\ UNCHANGED <<urls, loopVars, splitVars, fileName, contentLength,
                   dlResult, files, successCount, failedUrls, handler>>

\* pipeline() rejects with `cause` (downloader.ts:84-92, 108-111), and the
\* callback catches what handleDownload throws.
PipelineRejects(t, cause) ==
    /\ dlResult' = [dlResult EXCEPT ![t] = "rejected"]
    /\ CatchInCallback(t, CleanupError(t, cause))
    /\ UNCHANGED <<urls, loopVars, splitVars, taskVars, downloadProgress,
                   files, successCount, handler>>

\* The response stream or the write stream fails while the body is piped.
StreamError(t) ==
    /\ pc[t] = "streaming"
    /\ PipelineRejects(t, "stream")

\* The destroyed response stream closes before its end.
AbortedClose(t) ==
    /\ pc[t] = "destroyed"
    /\ PipelineRejects(t, "closed")

\* pipeline() resolves (downloader.ts:94-107): the final record is written and
\* the result returned; the callback tests the returned fileSize against
\* the threshold (part_000:220-222) and goes on to announce the split or to
\* read the file.
Complete(t) ==
    /\ pc[t] = "streaming"
    /\ body[t] = 0
    /\ downloadProgress' =
         updateDownloadProgress(downloadProgress, urls[t], FinalProgress(t))
    /\ dlResult' = [dlResult EXCEPT ![t] = "resolved"]
    /\ pc' = [pc EXCEPT ![t] = IF ResultFileSize(t) > SplitThreshold
                                THEN "announce" ELSE "reading"]
    /\ UNCHANGED <<urls, loopVars, splitVars, taskVars, files, successCount,
                   failedUrls, handler>>

\* ------------------------------------------------- the batch callback
\* fs.readFile(filePath) settles (part_000:242): the document is handed to
\* sock.sendMessage, or the read fails with ENOENT and the callback catches it.
ReadFile(t) ==
    /\ pc[t] = "reading"
    /\ IF fileName[t] \in files
       THEN /\ pc' = [pc EXCEPT ![t] = "sending"]
            /\ UNCHANGED failedUrls
       ELSE CatchInCallback(t, "enoent")
    /\ UNCHANGED <<urls, loopVars, splitVars, taskVars, dlResult,
                   downloadProgress, files, successCount, handler>>

\* The document was sent (part_000:241-252): the file is removed if it exists.
DocumentSent(t) ==
    /\ pc[t] = "sending"
    /\ files' = files \ {fileName[t]}
    /\ pc' = [pc EXCEPT ![t] = "cleaned"]
    /\ UNCHANGED <<urls, loopVars, splitVars, taskVars, dlResult,
                   downloadProgress, successCount, failedUrls, handler>>

\* sock.sendMessage rejects for the document (part_000:241, 260-266).
DocumentSendFails(t) ==
    /\ pc[t] = "sending"
    /\ CatchInCallback(t, "send")
    /\ UNCHANGED <<urls, loopVars, splitVars, taskVars, dlResult,
                   downloadProgress, files, successCount, handler>>

\* The 'Splitting large file' text was sent (part_000:223-227): splitFile is
\* called.
Announced(t) ==
    /\ pc[t] = "announce"
    /\ pc' = [pc EXCEPT ![t] = "splitting"]
    /\ UNCHANGED <<urls, loopVars, splitVars, taskVars, dlResult,
                   downloadProgress, files, successCount, failedUrls, handler>>

\* sock.sendMessage rejects for that text (part_000:223, 260-266).
AnnounceFails(t) ==
    /\ pc[t] = "announce"
    /\ CatchInCallback(t, "send")
    /\ UNCHANGED <<urls, loopVars, splitVars, taskVars, dlResult,
                   downloadProgress, files, successCount, handler>>

\* splitFile(filePath) settles (part_000:227-230): it has cut the bytes the
\* transfer wrote into parts no larger than the threshold and written the
\* part files, and the loop starts with j = 0; or it fails because the file
\* is not there, and the callback catches the error.
SplitDone(t) ==
    /\ pc[t] = "splitting"
    /\ IF fileName[t] \in files
       THEN \E m \in 1..SplitThreshold :
              LET n == PartCount(downloadedBytes[t], m) IN
              /\ parts' = [parts EXCEPT ![t] = n]
              /\ j' = [j EXCEPT ![t] = 0]
              /\ partFiles' =
                   partFiles \cup {PartFile(fileName[t], i) : i \in 1..n}
              /\ pc' = [pc EXCEPT ![t] = "partRead"]
              /\ UNCHANGED failedUrls
       ELSE /\ CatchInCallback(t, "enoent")
            /\ UNCHANGED <<parts, j, partFiles>>
    /\ UNCHANGED <<urls, delivered, splitVars, taskVars, dlResult,
                   downloadProgress, files, successCount, handler>>

\* fs.readFile(parts[j]) settles (part_000:231): the part is handed to
\* sock.sendMessage, or the read fails with ENOENT.
PartRead(t) ==
    /\ pc[t] = "partRead"
    /\ IF PartFile(fileName[t], j[t] + 1) \in partFiles
       THEN /\ pc' = [pc EXCEPT ![t] = "partSend"]
            /\ UNCHANGED failedUrls
       ELSE CatchInCallback(t, "enoent")
    /\ UNCHANGED <<urls, loopVars, splitVars, taskVars, dlResult,
                   downloadProgress, files, successCount, handler>>

\* The part was sent as `${fileName}.part${j + 1}` (part_000:230-238):
\* unlink(parts[j]) is called.
PartSent(t) ==
    /\ pc[t] = "partSend"
    /\ delivered' = [delivered EXCEPT ![t] = Append(@, j[t] + 1)]
    /\ pc' = [pc EXCEPT ![t] = "partUnlink"]
    /\ UNCHANGED <<urls, parts, j, partFiles, splitVars, taskVars, dlResult,
                   downloadProgress, files, successCount, failedUrls, handler>>

\* sock.sendMessage rejects for the part (part_000:230, 260-266).
PartSendFails(t) ==
    /\ pc[t] = "partSend"
    /\ CatchInCallback(t, "send")
    /\ UNCHANGED <<urls, loopVars, splitVars, taskVars, dlResult,
                   downloadProgress, files, successCount, handler>>

\* unlink(parts[j]) of fs/promises settles (part_000:238, 229, 249-252): the
\* part file is removed and j++; after the last part the source file is
\* removed if it exists.  The unlink fails with ENOENT when the part file is
\* not there.
PartUnlinked(t) ==
    /\ pc[t] = "partUnlink"
    /\ IF PartFile(fileName[t], j[t] + 1) \in partFiles
       THEN /\ partFiles' = partFiles \ {PartFile(fileName[t], j[t] + 1)}
            /\ j' = [j EXCEPT ![t] = @ + 1]
            /\ IF j[t] + 1 < parts[t]
               THEN /\ pc' = [pc EXCEPT ![t] = "partRead"]
                    /\ UNCHANGED files
               ELSE /\ pc' = [pc EXCEPT ![t] = "cleaned"]
                    /\ files' = files \ {fileName[t]}
            /\ UNCHANGED failedUrls
       ELSE /\ CatchInCallback(t, "enoent")
            /\ UNCHANGED <<partFiles, j, files>>
    /\ UNCHANGED <<urls, parts, delivered, splitVars, taskVars, dlResult,
                   downloadProgress, successCount, handler>>

\* After the clean-up (part_000:254-257): the success is counted and reported.
CountSuccess(t) ==
    /\ pc[t] = "cleaned"
    /\ successCount' = successCount + 1
    /\ pc' = [pc EXCEPT ![t] = "notifyOk"]
    /\ UNCHANGED <<urls, loopVars, splitVars, taskVars, dlResult,
                   downloadProgress, files, failedUrls, handler>>

\* The success message was sent (part_000:259): the callback returns.
SuccessReported(t) ==
    /\ pc[t] = "notifyOk"
    /\ pc' = [pc EXCEPT ![t] = "returned"]
    /\ UNCHANGED <<urls, loopVars, splitVars, taskVars, dlResult,
                   downloadProgress, files, successCount, failedUrls,
                   handler>>

\* sock.sendMessage rejects for the success message (part_000:255, 260-266):
\* the catch block of the same callback runs.
SuccessReportFails(t) ==
    /\ pc[t] = "notifyOk"
    /\ CatchInCallback(t, "send")
    /\ UNCHANGED <<urls, loopVars, splitVars, taskVars, dlResult,
                   downloadProgress, files, successCount, handler>>

\* The failure message was sent (part_000:263-266): the callback returns.
FailureReported(t) ==
    /\ pc[t] = "notifyFail"
    /\ pc' = [pc EXCEPT ![t] = "returned"]
    /\ UNCHANGED <<urls, loopVars, splitVars, taskVars, dlResult,
                   downloadProgress, files, successCount, failedUrls,
                   handler>>

\* sock.sendMessage rejects inside the catch block (part_000:263): the
\* callback's promise rejects, and with it Promise.all (part_000:270); the
\* handler leaves without a summary, the other callbacks run on.
FailureReportFails(t) ==
    /\ pc[t] = "notifyFail"
    /\ pc' = [pc EXCEPT ![t] = "threw"]
    /\ handler' = IF handler = "waiting" THEN "thrown" ELSE handler
    /\ UNCHANGED <<urls, loopVars, splitVars, taskVars, dlResult,
                   downloadProgress, files, successCount, failedUrls>>

\* Promise.all resolves (part_000:270-279): the summary is built from
\* successCount and failedUrls.
Summary ==
    /\ handler = "waiting"
    /\ \A t \in Tasks : pc[t] = "returned"
    /\ handler' = "summary"
    /\ UNCHANGED <<urls, loopVars, splitVars, pc, taskVars, dlResult,
                   downloadProgress, files, successCount, failedUrls>>

\* ------------------------------------------------------- environment
\* Some caller runs storage.stopAllDownloads().
StopAllDownloads ==
    /\ downloadProgress' = stopAllDownloads(downloadProgress)
    /\ UNCHANGED <<urls, loopVars, splitVars, pc, taskVars, dlResult, files,
                   successCount, failedUrls, handler>>

Next ==
    \/ \E t \in Tasks : Respond(t)
    \/ \E t \in Tasks : RequestFails(t)
    \/ \E t \in Tasks : Chunk(t)
    \/ \E t \in Tasks : StreamError(t)
    \/ \E t \in Tasks : AbortedClose(t)
    \/ \E t \in Tasks : Complete(t)
    \/ \E t \in Tasks : ReadFile(t)
    \/ \E t \in Tasks : DocumentSent(t)
    \/ \E t \in Tasks : DocumentSendFails(t)
    \/ \E t \in Tasks : CountSuccess(t)
    \/ \E t \in Tasks : SuccessReported(t)
    \/ \E t \in Tasks : SuccessReportFails(t)
    \/ \E t \in Tasks : FailureReported(t)
    \/ \E t \in Tasks : FailureReportFails(t)
    \/ Summary
    \/ StopAllDownloads

Spec == Init /\ [][Next]_vars

\* ---------------------------------------- the batch without other faults
\* A batch of three distinct URLs in an environment where nothing but the
\* request itself fails: no stream error, no transport error, and nobody
\* calls stopAllDownloads.
InitThree == InitBatch(<<"u1", "u2", "u3">>)

NextQuiet ==
    \/ \E t \in Tasks : Respond(t)
    \/ \E t \in Tasks : RequestFails(t)
    \/ \E t \in Tasks : Chunk(t)
    \/ \E t \in Tasks : Complete(t)
    \/ \E t \in Tasks : ReadFile(t)
    \/ \E t \in Tasks : DocumentSent(t)
    \/ \E t \in Tasks : CountSuccess(t)
    \/ \E t \in Tasks : SuccessReported(t)
    \/ \E t \in Tasks : FailureReported(t)
    \/ Summary

SpecQuiet == InitThree /\ [][NextQuiet]_vars

\* ------------------------------------------- files around the threshold
\* A batch of two URLs whose files are at or just above the split threshold.
\* The transport may fail while a split file is delivered; transfers are
\* neither stopped nor broken.
InitLarge == InitBatch(<<"u1", "u2">>)

NextLarge ==
    \/ \E t \in Tasks : RespondLarge(t)
    \/ \E t \in Tasks : Chunk(t)
    \/ \E t \in Tasks : Complete(t)
    \/ \E t \in Tasks : Announced(t)
    \/ \E t \in Tasks : AnnounceFails(t)
    \/ \E t \in Tasks : SplitDone(t)
    \/ \E t \in Tasks : PartRead(t)
    \/ \E t \in Tasks : PartSent(t)
    \/ \E t \in Tasks : PartSendFails(t)
    \/ \E t \in Tasks : PartUnlinked(t)
    \/ \E t \in Tasks : ReadFile(t)
    \/ \E t \in Tasks : DocumentSent(t)
    \/ \E t \in Tasks : CountSuccess(t)
    \/ \E t \in Tasks : SuccessReported(t)
    \/ \E t \in Tasks : FailureReported(t)
    \/ Summary

SpecLarge == InitLarge /\ [][NextLarge]_vars

\* -------------------------------------------------- splitFile on its own
\* splitFile is handed a file of up to MaxFileLen bytes and a limit of up to
\* MaxPartSize bytes.
InitSplit ==
    /\ \E bytes \in Sources, m \in PartSizes : InitSplitFile(bytes, m)
    /\ parts = <<0>>
    /\ j = <<0>>
    /\ delivered = << <<>> >>
    /\ partFiles = {}
    /\ urls = <<"u1">>
    /\ pc = <<"splitting">>
    /\ fileName = <<"f1">>
    /\ contentLength = <<0>>
    /\ downloadedBytes = <<0>>
    /\ body = <<0>>
    /\ dlResult = <<"resolved">>
    /\ downloadProgress = [u \in Urls |-> NoProgress]
    /\ files = {"f1"}
    /\ successCount = 0
    /\ failedUrls = <<>>
    /\ handler = "waiting"

\* split(filePath, maxPartBytes) returns.
SplitFile ==
    /\ splitState = "idle"
    /\ splitParts' = splitFile(source, maxPartBytes)
    /\ splitState' = "done"
    /\ UNCHANGED <<urls, pc, taskVars, dlResult, downloadProgress, files,
                   successCount, failedUrls, handler, loopVars, source,
                   maxPartBytes>>

NextSplit == SplitFile

SpecSplit == InitSplit /\ [][NextSplit]_vars

\* ------------------------------------------------------------- claims
Terminal == {"completed", "stopped", "failed"}

\* The record stored under the URL of task t.
RecordOf(t) == downloadProgress[urls[t]]

\* Task t has registered its progress record (it got a response).
Registered(t) == fileName[t] # None

\* The transfer of task t is running: registered and the pipeline not settled.
InProgress(t) == pc[t] \in {"streaming", "destroyed"}

\* C1 (as claimed): cancellation cleanup.  A transfer whose data handler found
\* its record 'stopped' before the body was complete (Content-Length present,
\* so downloadedBytes < fileSize when the record was stopped) ends with the
\* record 'stopped' and with no file at its destination path.
C1_CancellationCleanup ==
    [][\A t \in Tasks :
        (pc[t] = "destroyed" /\ contentLength[t] > 0 /\ dlResult'[t] = "rejected")
            => (RecordOf(t)'.status = "stopped" /\ fileName[t] \notin files')]_vars

\* C2 (as claimed): terminal records are frozen.  No write of the same
\* transfer (same startTime) and no stopAllDownloads changes the status or
\* the byte count of a record that is 'completed', 'stopped' or 'failed'.
C2_TerminalFrozen ==
    [][\A u \in Urls :
        (/\ downloadProgress[u].status \in Terminal
         /\ downloadProgress'[u].startTime = downloadProgress[u].startTime)
            => /\ downloadProgress'[u].status = downloadProgress[u].status
               /\ downloadProgress'[u].downloadedBytes =
                      downloadProgress[u].downloadedBytes]_vars

\* C3 (as claimed): failure observability.  After handleDownload has rejected
\* for a transfer that registered a record, the record of that transfer is
\* 'failed' or 'stopped'.
C3_FailureObservable ==
    \A t \in Tasks :
        (dlResult[t] = "rejected" /\ Registered(t) /\ RecordOf(t).startTime = t)
            => RecordOf(t).status \in {"failed", "stopped"}

\* C4 (as claimed): guaranteed partial-file cleanup.  Once handleDownload has
\* rejected after creating the destination file, no file is left at the
\* destination path (no other task of the batch uses that path).
C4_PartialFileRemoved ==
    \A t \in Tasks :
        (/\ dlResult[t] = "rejected"
         /\ Registered(t)
         /\ \A o \in Tasks \ {t} : fileName[o] # fileName[t])
            => fileName[t] \notin files

\* A transfer of URL u registers its record in this step.
Registers(u) ==
    \E t \in Tasks : urls[t] = u /\ pc[t] = "request" /\ pc'[t] = "streaming"

\* C5 (as claimed): monotonicity.  Between the registration of a record and a
\* terminal status, under every interleaving of the store writes of all
\* transfers, the downloadedBytes value stored under a URL never decreases:
\* a step that leaves the record 'downloading' and registers nothing does
\* not lower it.
C5_Monotone ==
    [][\A u \in Urls :
        (/\ downloadProgress[u].status = "downloading"
         /\ downloadProgress'[u].status = "downloading"
         /\ ~Registers(u))
            => downloadProgress'[u].downloadedBytes >=
                   downloadProgress[u].downloadedBytes]_vars

\* C6 (as claimed): stopAllDownloads sets to 'stopped' exactly the records
\* that are not 'completed', leaves 'completed' records as they are and
\* changes no other field.
C6_StopSparesCompleted ==
    \A u \in Urls :
        LET before == downloadProgress[u]
            after  == stopAllDownloads(downloadProgress)[u]
        IN  /\ before.status = "completed" => after = before
            /\ before.status \notin {"completed", "absent"}
                   => after = [before EXCEPT !.status = "stopped"]

\* The tasks whose request failed: their URL is unreachable.
Unreachable == {t \in Tasks : dlResult[t] = "rejected" /\ ~Registered(t)}

\* C7 (as claimed): batch independence.  When exactly one URL of the batch is
\* unreachable (and nothing else fails), the summary reports
\* successCount = N-1 and one failure entry, naming the unreachable URL.
C7_BatchIndependence ==
    (handler = "summary" /\ Cardinality(Unreachable) = 1)
        => /\ successCount = Len(urls) - 1
           /\ Len(failedUrls) = 1
           /\ \A t \in Unreachable : failedUrls[1].url = urls[t]

\* C8 (as claimed): batch completeness.  The summary is produced only after
\* every callback has finished, and every item is then accounted for exactly
\* once.
C8_BatchComplete ==
    handler = "summary"
        => /\ \A t \in Tasks : pc[t] = "returned"
           /\ successCount + Len(failedUrls) = Len(urls)

\* Position of a URL in the request.
PositionOf(u) == CHOOSE i \in 1..Len(urls) : urls[i] = u

\* C9 (as claimed): the failure entries of the summary are in the order of
\* their URLs in the request (a request of distinct URLs).
C9_FailuresInInputOrder ==
    (handler = "summary" /\ \A i, k \in Tasks : urls[i] = urls[k] => i = k)
        => \A i, k \in 1..Len(failedUrls) :
              i < k => PositionOf(failedUrls[i].url) <= PositionOf(failedUrls[k].url)

\* C10 (as claimed): exclusive file ownership.  No two running transfers of
\* distinct URLs have the same destination path, and no step removes the
\* destination file of a running transfer.
C10_ExclusiveFile ==
    [][/\ \A t, o \in Tasks :
            (InProgress(t)' /\ InProgress(o)' /\ urls[t] # urls[o])
                => fileName'[t] # fileName'[o]
       /\ \A t \in Tasks :
            (InProgress(t) /\ fileName[t] \in files) => fileName[t] \in files']_vars

\* The errors a network or I/O failure makes handleDownload reject with: a
\* failed request, a failed stream, and the TypeError of the clean-up.
NetworkOrIOErrors == {"unreachable", "stream", "cb"}

\* C11 (as claimed): cancellation is distinguishable.  The error with which
\* handleDownload rejects after an abort on 'stopped' is none of the errors
\* a network or I/O failure produces.
C11_CancelDistinguished ==
    [][\A t \in Tasks :
        (pc[t] = "destroyed" /\ dlResult'[t] = "rejected")
            => failedUrls'[Len(failedUrls')].error \notin NetworkOrIOErrors]_vars

\* Task t takes a step of its transfer: its position or its body changes.
TransferStep(t) == <<pc[t], body[t]>> # <<pc'[t], body'[t]>>

\* C12 (as claimed): chunk-granularity cancellation.  While the record under
\* its URL is 'stopped', a running transfer handles at most one further
\* chunk and performs no further progress update: its next step leaves the
\* store as it is and ends the streaming.
C12_StopsWithinOneChunk ==
    [][\A t \in Tasks :
        (InProgress(t) /\ RecordOf(t).status = "stopped" /\ TransferStep(t))
            => (downloadProgress' = downloadProgress /\ pc'[t] # "streaming")]_vars

\* The records of the store.
Records == getActiveDownloads(downloadProgress)

C17_ResolvesAfterCompleted ==
    [][\A t \in Tasks :
        /\ (dlResult[t] = "pending" /\ dlResult'[t] = "resolved")
              => /\ pc[t] = "streaming" /\ body[t] = 0
                 /\ RecordOf(t)'.status = "completed"
                 /\ RecordOf(t)'.startTime = t
                 /\ RecordOf(t)'.downloadedBytes = RecordOf(t)'.fileSize
                 /\ ResultFileSize(t) = RecordOf(t)'.fileSize
        /\ dlResult[t] = "rejected" => dlResult'[t] = "rejected"]_vars

\* C17 witness: a call has resolved after a body longer than the fileSize of
\* its record (no Content-Length), the record 'completed' with
\* downloadedBytes = fileSize = 0.
C17_Witness ==
    \E t \in Tasks :
        /\ dlResult[t] = "resolved"
        /\ downloadedBytes[t] > 0
        /\ RecordOf(t).status = "completed"
        /\ RecordOf(t).startTime = t
        /\ RecordOf(t).downloadedBytes = 0
        /\ ResultFileSize(t) = 0

\* Task t writes its record in this step: it registers, handles a chunk
\* without abort, or completes.
WritesRecord(t) ==
    \/ pc[t] = "request" /\ pc'[t] = "streaming"
    \/ pc[t] = "streaming" /\ body'[t] < body[t] /\ pc'[t] = "streaming"
    \/ pc[t] = "streaming" /\ pc'[t] \in {"reading", "announce"}

\* C19: per-key replacement.  A step of a transfer leaves the record of every
\* other URL as it is, and a write puts under the transfer's URL exactly the
\* record of the writing transfer (last write wins).
C19_PerKeyReplacement ==
    [][\A t \in Tasks :
        /\ TransferStep(t)
              => \A u \in Urls \ {urls[t]} :
                    downloadProgress'[u] = downloadProgress[u]
        /\ WritesRecord(t)
              => /\ RecordOf(t)'.startTime = t
                 /\ RecordOf(t)'.url = urls[t]
                 /\ RecordOf(t)'.fileName = fileName'[t]
                 /\ RecordOf(t)'.fileSize = contentLength'[t]]_vars

\* C19 witness: the records of two URLs side by side, one completed, the
\* other written by a chunk of a running transfer.
C19_Witness ==
    \E t, o \in Tasks :
        /\ urls[t] # urls[o]
        /\ pc[t] = "streaming"
        /\ RecordOf(t).startTime = t /\ RecordOf(t).downloadedBytes > 0
        /\ RecordOf(o).status = "completed" /\ RecordOf(o).startTime = o

\* C20 (as claimed): no expiry.  No step removes a record, and the startTime
\* stored under a URL changes only when a later transfer of that URL
\* overwrites the record: in the step in which that transfer registers.
\* (The first other change of startTime in a behaviour is a write of a
\* transfer that registered before the one whose record is stored.)
C20_NoExpiry ==
    [][\A u \in Urls :
        downloadProgress[u] # NoProgress
            => /\ downloadProgress'[u] # NoProgress
               /\ downloadProgress'[u].startTime # downloadProgress[u].startTime
                     => Registers(u)]_vars

\* C13 (as claimed): threshold policy.  When a download has completed, the
\* callback takes the split branch exactly if the size of the file, the bytes
\* the transfer wrote, is above the threshold - with or without a
\* Content-Length.
C13_ThresholdPolicy ==
    [][\A t \in Tasks :
        (dlResult[t] = "pending" /\ dlResult'[t] = "resolved")
            => (pc'[t] = "announce" <=> downloadedBytes[t] > SplitThreshold)]_vars

\* Concatenation of a sequence of parts in index order.
RECURSIVE Concat(_)
Concat(ps) == IF ps = <<>> THEN <<>> ELSE Head(ps) \o Concat(Tail(ps))

\* ceil(a / b) for a >= 0, b > 0.
Ceil(a, b) == (a + b - 1) \div b

\* C16: split round-trip.  The parts returned by split, concatenated in index
\* order, are the bytes of the file; every part but the last has exactly
\* maxPartBytes bytes, the last one between 1 and maxPartBytes; and there are
\* ceil(fileSize / maxPartBytes) parts.
C16_SplitRoundTrip ==
    splitState = "done"
        => /\ Concat(splitParts) = source
           /\ Len(splitParts) = Ceil(Len(source), maxPartBytes)
           /\ \A i \in 1..Len(splitParts) :
                 /\ Len(splitParts[i]) \in 1..maxPartBytes
                 /\ i < Len(splitParts) => Len(splitParts[i]) = maxPartBytes

\* C16 witness: a file was split into several parts, the last one shorter
\* than the others.
C16_Witness ==
    /\ splitState = "done"
    /\ Len(splitParts) >= 2
    /\ Len(splitParts[Len(splitParts)]) < maxPartBytes
    /\ Concat(splitParts) = source

\* C18 (as claimed): ordered part delivery.  The documents sent for a split
\* transfer are its parts 1, 2, ... in this order and none beyond N; a part
\* file of the transfer is gone only after this part was delivered; and the
\* source file is gone only after all N parts were delivered.
C18_OrderedPartDelivery ==
    \A t \in Tasks :
        parts[t] > 0
            => /\ Len(delivered[t]) <= parts[t]
               /\ \A i \in 1..Len(delivered[t]) : delivered[t][i] = i
               /\ \A i \in 1..parts[t] :
                     PartFile(fileName[t], i) \notin partFiles
                         => i <= Len(delivered[t])
               /\ fileName[t] \notin files => Len(delivered[t]) = parts[t]

====
